---- MODULE Spec2Model ----
(***************************************************************************)
(* CommitQuickPick.show (src/quickpicks/commitQuickPick.ts): one run of    *)
(* the commit details picker.  The state is the arguments of show, the     *)
(* item list and key commands it builds, the keybinding scope, the picker  *)
(* session, and the previous/next resolutions that are awaiting a log      *)
(* query.  Host collaborators (picker, keyboard, git log service) appear   *)
(* as nondeterministic events and answers.                                 *)
(***************************************************************************)
EXTENDS Integers, Sequences, FiniteSets, TLC

\* ------------------------------------------------------------------ bounds
MaxPending == 1     \* closures of one key suspended at getLog at the same time
NumFiles == 1       \* files changed by the commit
NumRemotes == 1     \* remotes of the repository

\* ------------------------------------------------------------ value domains
\* show compares shas only with commit.sha and with undefined, so the commit's
\* own sha and one other sha stand for all of them.
None == "undefined"
CommitSha == "c0ffee"
Shas == {CommitSha, "0ther"}
OptShas == {None} \cup Shas

\* A sha a commit with sha s may name as its previous/next commit.
Adjacent(s) == OptShas \ {s}

\* GitLogCommit, as far as show reads it.
Entries ==
    UNION {[sha : {s}, previousSha : Adjacent(s), nextSha : Adjacent(s)] : s \in Shas}

NoEntry == [sha |-> None, previousSha |-> None, nextSha |-> None]

\* GitLog.commits: an insertion-ordered map keyed by sha.  show reads it only
\* through get(commit.sha) and the first of values(), so logs of at most one
\* commit cover its cases: no commit, the commit itself, another commit.
CommitLists == {<<>>} \cup {<<e>> : e \in Entries}

\* GitLog; defined = FALSE is the undefined log.
NoLog == [defined |-> FALSE, truncated |-> FALSE, sha |-> None, commits |-> <<>>]

\* GitLog.sha: the ref the log was asked for, undefined for a log of the repository.
LogValues ==
    [defined : {TRUE}, truncated : BOOLEAN, sha : {None, CommitSha},
     commits : CommitLists]

OptLogs == {NoLog} \cup LogValues

\* What Container.git.getLog(repoPath, { ref, ... }) may answer: nothing, or a log
\* of that ref.
GetLog(ref) == {NoLog} \cup {l \in LogValues : l.sha = ref}

\* Answers to { maxCount: maxListItems, ref }: a log that has commits starts at
\* the commit of ref.
GetLogFrom(ref) ==
    {l \in GetLog(ref) : Len(l.commits) > 0 => l.commits[1].sha = ref}

\* Answers to { maxCount: 1, reverse: true, ref }: at most one commit, which has
\* no neighbour in the log.
GetLogReverse(ref) ==
    {l \in GetLog(ref) :
        \A i \in 1..Len(l.commits) :
            l.commits[i].previousSha = None /\ l.commits[i].nextSha = None}

\* The answers by ref.
LogAnswers == [ref \in Shas |-> GetLogFrom(ref)]
ReverseLogAnswers == [ref \in Shas |-> GetLogReverse(ref)]

\* log && log.commits.get(sha)
Get(log, sha) ==
    IF log.defined /\ \E i \in 1..Len(log.commits) : log.commits[i].sha = sha
    THEN log.commits[CHOOSE i \in 1..Len(log.commits) : log.commits[i].sha = sha]
    ELSE NoEntry

\* log && Iterables.first(log.commits.values())
First(log) ==
    IF log.defined /\ Len(log.commits) > 0 THEN log.commits[1] ELSE NoEntry

\* c.nextSha = v on the entry of log keyed by sha
SetNextSha(log, sha, v) ==
    [log EXCEPT !.commits =
        [i \in 1..Len(log.commits) |->
            IF log.commits[i].sha = sha
            THEN [log.commits[i] EXCEPT !.nextSha = v]
            ELSE log.commits[i]]]

\* ------------------------------------------------------------ key commands
\* An unbound key / an undefined KeyCommand.
Undefined == [type |-> "undefined"]

\* KeyNoopCommand (../keyboard)
KeyNoopCommand == [type |-> "noop"]

\* new KeyCommandQuickPickItem(Commands.ShowQuickCommitDetails, [uri, args])
ShowQuickCommitDetails(sha, log, goBack) ==
    [type |-> "command", command |-> "ShowQuickCommitDetails",
     sha |-> sha, repoLog |-> log, goBackCommand |-> goBack]

\* An async closure of show bound to a key.
Callback(fn) == [type |-> "callback", fn |-> fn]

\* ------------------------------------------------------------------- items
Item(kind, n, hook) == [type |-> "item", kind |-> kind, file |-> n, onDidSelect |-> hook]

\* The goBackCommand a caller may pass: none, or an item (with an onDidSelect
\* hook; the items show builds have none).
GoBackValues == {Undefined, Item("GoBack", 0, TRUE)}

VARIABLES
    commit,           \* the GitLogCommit passed to show
    repoLog,          \* the GitLog passed to show (NoLog when undefined)
    aliased,          \* commit is the very object repoLog.commits holds for its sha
    goBackCommand,    \* the goBackCommand passed to show
    pc,               \* position of show
    items,            \* the list handed to the picker
    remotesQueries,   \* calls of Container.git.getRemotes
    previousCommand,  \* local of show
    nextCommand,      \* local of show
    scope,            \* "none", "active", "disposed"
    mapping,          \* keys of the scope
    pending,          \* closures suspended at their await of getLog
    lastKey,          \* outcome of the last ',' or '.' press that finished
    highlighted,      \* item of the last onDidSelectItem event
    hooked,           \* item whose onDidSelect ran last
    pick,             \* what showQuickPick resolved to
    returned          \* what show returned

vars == <<commit, repoLog, aliased, goBackCommand, pc, items, remotesQueries,
          previousCommand, nextCommand, scope, mapping, pending,
          lastKey, highlighted, hooked, pick, returned>>

NoKey ==
    [key |-> "", queried |-> FALSE, seen |-> NoEntry, result |-> Undefined,
     dispatched |-> Undefined]

CommitValues ==
    [sha : {CommitSha}, previousSha : Adjacent(CommitSha), nextSha : Adjacent(CommitSha),
     isStash : BOOLEAN]

\* The commit as an entry of a log.
AsEntry(c) == [sha |-> c.sha, previousSha |-> c.previousSha, nextSha |-> c.nextSha]

Init ==
    /\ commit \in CommitValues
    /\ repoLog \in OptLogs
    /\ aliased \in BOOLEAN
    /\ aliased => Get(repoLog, commit.sha) = AsEntry(commit)
    /\ goBackCommand \in GoBackValues
    /\ pc = "start"
    /\ items = <<>>
    /\ remotesQueries = 0
    /\ previousCommand = Undefined
    /\ nextCommand = Undefined
    /\ scope = "none"
    /\ mapping = [left |-> Undefined, comma |-> Undefined, dot |-> Undefined,
                  right |-> Undefined]
    /\ pending = [previous |-> 0, next |-> 0]
    /\ lastKey = NoKey
    /\ highlighted = Undefined
    /\ hooked = Undefined
    /\ pick = Undefined
    /\ returned = Undefined

\* ------------------------------------------------- show: building the picker
\* The item list: every command item is spliced at index++ in front of the file
\* items, then goBackCommand at index 0.
BuildItems(c, goBack, remotes) ==
    LET files == [i \in 1..NumFiles |-> Item("File", i, FALSE)]
        cmd(k) == Item(k, 0, FALSE)
        head == IF c.isStash
                THEN <<cmd("StashApply"), cmd("StashDelete"), cmd("ShowCommitInView")>>
                ELSE <<cmd("ShowCommitInView")>>
                     \o (IF remotes > 0 THEN <<cmd("OpenRemotes")>> ELSE <<>>)
        mid == <<cmd("OpenFiles"), cmd("OpenRevisions"), cmd("DiffDirectoryPrevious"),
                 cmd("DiffDirectoryWorkingTree")>>
        copy == (IF c.isStash THEN <<>> ELSE <<cmd("CopySha")>>)
                \o <<cmd("CopyMessage"), cmd("ChangedFiles")>>
        back == IF goBack # Undefined THEN <<goBack>> ELSE <<>>
    IN  back \o head \o mid \o copy \o files

\* IsFullHistory without the test of repoLog.sha
IsFullHistoryIgnoringSha(log) == log.defined /\ ~log.truncated

\* "If we have the full history, we are good"
IsFullHistory(log) == log.defined /\ ~log.truncated /\ log.sha = None

\* previousCommand of the full-history branch
StaticPrevious(c, log, goBack) ==
    IF c.previousSha = None THEN Undefined
    ELSE ShowQuickCommitDetails(c.previousSha, log, goBack)

\* nextCommand of the full-history branch
StaticNext(c, log, goBack) ==
    IF c.nextSha = None THEN Undefined
    ELSE ShowQuickCommitDetails(c.nextSha, log, goBack)

\* PreviousBinding without the full-history branch
PreviousBindingAlwaysLazy(c, log, goBack) ==
    IF c.isStash THEN Undefined ELSE Callback("previousCommand")

\* previousCommand as show leaves it
PreviousBinding(c, log, goBack) ==
    IF c.isStash THEN Undefined
    ELSE IF IsFullHistory(log) THEN StaticPrevious(c, log, goBack)
    ELSE Callback("previousCommand")

\* nextCommand as show leaves it
NextBinding(c, log, goBack) ==
    IF c.isStash THEN Undefined
    ELSE IF IsFullHistory(log) THEN StaticNext(c, log, goBack)
    ELSE Callback("nextCommand")

\* QueriesRemotes with the query hoisted out of the non-stash branch
QueriesRemotesAlways(c) == TRUE

\* Whether show awaits Container.git.getRemotes
QueriesRemotes(c) == ~c.isStash

Build ==
    /\ pc = "start"
    /\ items' = BuildItems(commit, goBackCommand,
                           IF QueriesRemotes(commit) THEN NumRemotes ELSE 0)
    /\ remotesQueries' = remotesQueries + (IF QueriesRemotes(commit) THEN 1 ELSE 0)
    /\ previousCommand' = PreviousBinding(commit, repoLog, goBackCommand)
    /\ nextCommand' = NextBinding(commit, repoLog, goBackCommand)
    /\ pc' = "built"
    /\ UNCHANGED <<commit, repoLog, aliased, goBackCommand, scope, mapping, 
                   pending, lastKey, highlighted, hooked, pick, returned>>

\* await Container.keyboard.beginScope({ left, ',', '.' })
ScopeMapping(goBack, prev, next) ==
    [left |-> goBack, comma |-> prev, dot |-> next, right |-> Undefined]

BeginScope ==
    /\ pc = "built"
    /\ scope' = "active"
    /\ mapping' = ScopeMapping(goBackCommand, previousCommand, nextCommand)
    /\ pc' = "scoped"
    /\ UNCHANGED <<commit, repoLog, aliased, goBackCommand, items, remotesQueries,
                   previousCommand, nextCommand, pending, lastKey,
                   highlighted, hooked, pick, returned>>

\* window.showQuickPick(items, ...) displays the list
ShowQuickPick ==
    /\ pc = "scoped"
    /\ pc' = "open"
    /\ UNCHANGED <<commit, repoLog, aliased, goBackCommand, items, remotesQueries,
                   previousCommand, nextCommand, scope, mapping, pending,
                   lastKey, highlighted, hooked, pick, returned>>

\* ------------------------------------------------------ picker session
\* The items the user highlights or selects: the first and the last of the list.
Reachable(list) == {1, Len(list)}

\* OnDidSelectItemMapping binding the wrong key
OnDidSelectItemMappingLeft(m, item) == [m EXCEPT !.left = item]

\* onDidSelectItem: scope.setKeyCommand('right', item)
OnDidSelectItemMapping(m, item) == [m EXCEPT !.right = item]

\* onDidSelectItem: if (typeof item.onDidSelect === 'function') item.onDidSelect()
OnDidSelectItemHook(h, item) == IF item.onDidSelect THEN item ELSE h

OnDidSelectItem ==
    /\ pc = "open"
    /\ \E i \in Reachable(items) :
          /\ highlighted' = items[i]
          /\ mapping' = OnDidSelectItemMapping(mapping, items[i])
          /\ hooked' = OnDidSelectItemHook(hooked, items[i])
    /\ UNCHANGED <<commit, repoLog, aliased, goBackCommand, pc, items, remotesQueries,
                   previousCommand, nextCommand, scope, pending, lastKey, pick,
                   returned>>

\* showQuickPick resolves to the item the user accepted: the highlighted one
Accept ==
    /\ pc = "open"
    /\ highlighted # Undefined
    /\ pick' = highlighted
    /\ pc' = "picked"
    /\ UNCHANGED <<commit, repoLog, aliased, goBackCommand, items, remotesQueries,
                   previousCommand, nextCommand, scope, mapping, pending, lastKey,
                   highlighted, hooked, returned>>

\* showQuickPick resolves to undefined
Dismiss ==
    /\ pc = "open"
    /\ pick' = Undefined
    /\ pc' = "picked"
    /\ UNCHANGED <<commit, repoLog, aliased, goBackCommand, items, remotesQueries,
                   previousCommand, nextCommand, scope, mapping, pending, lastKey,
                   highlighted, hooked, returned>>

\* A scope that was disposed holds no key.
NoMapping ==
    [left |-> Undefined, comma |-> Undefined, dot |-> Undefined, right |-> Undefined]

\* Dispose skipped when the picker was dismissed
DisposeUnlessDismissed ==
    /\ pc = "picked"
    /\ scope' = IF pick = Undefined THEN scope ELSE "disposed"
    /\ mapping' = IF pick = Undefined THEN mapping ELSE NoMapping
    /\ pc' = "disposed"
    /\ UNCHANGED <<commit, repoLog, aliased, goBackCommand, items, remotesQueries,
                   previousCommand, nextCommand, pending, lastKey, highlighted, hooked,
                   pick, returned>>

\* await scope.dispose()
Dispose ==
    /\ pc = "picked"
    /\ scope' = "disposed"
    /\ mapping' = NoMapping
    /\ pc' = "disposed"
    /\ UNCHANGED <<commit, repoLog, aliased, goBackCommand, items, remotesQueries,
                   previousCommand, nextCommand, pending, lastKey, highlighted, hooked, pick,
                   returned>>

\* ReturnValue dropping the pick
ReturnNothing(p) == Undefined

\* return pick
ReturnValue(p) == p

Return ==
    /\ pc = "disposed"
    /\ returned' = ReturnValue(pick)
    /\ pc' = "done"
    /\ UNCHANGED <<commit, repoLog, aliased, goBackCommand, items, remotesQueries,
                   previousCommand, nextCommand, scope, mapping, pending, lastKey,
                   highlighted, hooked, pick>>

\* ------------------------------------------------------------ key presses
\* The keyboard runs the command a key resolved to: a KeyCommandQuickPickItem
\* executes its command, KeyNoopCommand and an unbound key do nothing.
Dispatch(result) == IF result.type = "command" THEN result ELSE Undefined

\* A finished key press: whether the closure queried a log, the entry it looked
\* at last (as the log held it), the KeyCommand the key resolved to, and the
\* command the keyboard ran for it.
Finished(key, queried, seen, result) ==
    [key |-> key, queried |-> queried, seen |-> seen, result |-> result,
     dispatched |-> Dispatch(result)]

Binding(key) == IF key = "," THEN mapping.comma ELSE mapping.dot

\* ',' or '.' while it is unbound or bound to a static KeyCommand
PressStatic ==
    /\ scope = "active"
    /\ \E key \in {",", "."} :
          /\ Binding(key).type # "callback"
          /\ lastKey' = Finished(key, FALSE, NoEntry, Binding(key))
    /\ UNCHANGED <<commit, repoLog, aliased, goBackCommand, pc, items, remotesQueries,
                   previousCommand, nextCommand, scope, mapping, pending, highlighted, hooked, pick,
                   returned>>

\* previousCommand: "If we can't find the commit or the previous commit isn't
\* available (since it isn't trustworthy)"
PreviousNeedsQuery(c) == c = NoEntry \/ c.previousSha = None

\* PreviousResult without the test of c.previousSha
PreviousResultUnchecked(log, c, goBack) ==
    IF c = NoEntry THEN KeyNoopCommand
    ELSE ShowQuickCommitDetails(c.previousSha, log, goBack)

\* previousCommand: the KeyCommand it returns for log and its entry c
PreviousResult(log, c, goBack) ==
    IF c = NoEntry \/ c.previousSha = None THEN KeyNoopCommand
    ELSE ShowQuickCommitDetails(c.previousSha, log, goBack)

\* PreviousFresh without the copy of nextSha
PreviousFreshNoCopy(log, cmt) == log

\* previousCommand: the queried log after "Copy over next info"
PreviousFresh(log, cmt) ==
    IF Get(log, cmt.sha) # NoEntry THEN SetNextSha(log, cmt.sha, cmt.nextSha) ELSE log

\* ',' bound to the closure: up to its await, or to its return without a query
PreviousCommandCall ==
    /\ scope = "active"
    /\ mapping.comma.type = "callback"
    /\ LET c == Get(repoLog, commit.sha) IN
       IF PreviousNeedsQuery(c)
       THEN /\ pending.previous < MaxPending
            /\ pending' = [pending EXCEPT !.previous = @ + 1]
            /\ UNCHANGED lastKey
       ELSE /\ lastKey' = Finished(",", FALSE, c,
                                   PreviousResult(repoLog, c, goBackCommand))
            /\ UNCHANGED pending
    /\ UNCHANGED <<commit, repoLog, aliased, goBackCommand, pc, items, remotesQueries,
                   previousCommand, nextCommand, scope, mapping, highlighted, hooked, pick, returned>>

\* previousCommand from the answer of getLog to its return
PreviousCommandResume ==
    /\ pending.previous > 0
    /\ pending' = [pending EXCEPT !.previous = @ - 1]
    /\ \E answer \in LogAnswers[commit.sha] :
          LET log == PreviousFresh(answer, commit)
              c == Get(log, commit.sha)
          IN  lastKey' = Finished(",", TRUE, Get(answer, commit.sha),
                                  PreviousResult(log, c, goBackCommand))
    /\ UNCHANGED <<commit, repoLog, aliased, goBackCommand, pc, items, remotesQueries,
                   previousCommand, nextCommand, scope, mapping, highlighted, hooked, pick, returned>>

\* NextNeedsQuery trusting any cached entry
NextNeedsQueryMissingOnly(c) == c = NoEntry

\* nextCommand: "If we can't find the commit or the next commit isn't available"
NextNeedsQuery(c) == c = NoEntry \/ c.nextSha = None

\* nextCommand: the KeyCommand it returns for log and its entry c
NextResult(log, c, goBack) ==
    IF c = NoEntry \/ c.nextSha = None THEN KeyNoopCommand
    ELSE ShowQuickCommitDetails(c.nextSha, log, goBack)

\* NextFound without the comparison with commit.sha
NextFoundAny(nextLog, cmt) == First(nextLog) # NoEntry

\* nextCommand: whether the queried log names a next commit
NextFound(nextLog, cmt) == First(nextLog) # NoEntry /\ First(nextLog).sha # cmt.sha

\* '.' bound to the closure: up to its await, or to its return without a query
NextCommandCall ==
    /\ scope = "active"
    /\ mapping.dot.type = "callback"
    /\ LET c == Get(repoLog, commit.sha) IN
       IF NextNeedsQuery(c)
       THEN /\ pending.next < MaxPending
            /\ pending' = [pending EXCEPT !.next = @ + 1]
            /\ UNCHANGED lastKey
       ELSE /\ lastKey' = Finished(".", FALSE, c, NextResult(repoLog, c, goBackCommand))
            /\ UNCHANGED pending
    /\ UNCHANGED <<commit, repoLog, aliased, goBackCommand, pc, items, remotesQueries,
                   previousCommand, nextCommand, scope, mapping, highlighted, hooked, pick, returned>>

\* nextCommand from the answer of getLog to its return
NextCommandResume ==
    /\ pending.next > 0
    /\ pending' = [pending EXCEPT !.next = @ - 1]
    /\ \E answer \in ReverseLogAnswers[commit.sha] :
          LET found == NextFound(answer, commit)
              sha == First(answer).sha
          IN  /\ commit' = IF found THEN [commit EXCEPT !.nextSha = sha] ELSE commit
              /\ repoLog' = IF found /\ aliased
                            THEN SetNextSha(repoLog, commit.sha, sha) ELSE repoLog
              /\ lastKey' = Finished(".", TRUE, First(answer),
                                NextResult(NoLog,
                                           IF found THEN AsEntry(commit') ELSE NoEntry,
                                           goBackCommand))
    /\ UNCHANGED <<aliased, goBackCommand, pc, items, remotesQueries, previousCommand,
                   nextCommand, scope, mapping, highlighted, hooked, pick, returned>>

Next ==
    \/ Build
    \/ BeginScope
    \/ ShowQuickPick
    \/ OnDidSelectItem
    \/ Accept
    \/ Dismiss
    \/ Dispose
    \/ Return
    \/ PressStatic
    \/ PreviousCommandCall
    \/ PreviousCommandResume
    \/ NextCommandCall
    \/ NextCommandResume

Spec == Init /\ [][Next]_vars

\* ================================================================= claims
\* show was given the full history: repoLog defined, not truncated, of no ref.
FullHistoryGiven == repoLog.defined /\ ~repoLog.truncated /\ repoLog.sha = None

NothingPending == pending = [previous |-> 0, next |-> 0]

\* C1: the keybinding scope is begun before the picker is displayed, is active
\* while the picker is open, and is disposed after the picker closed, by
\* selection or by dismissal; once show has completed its scope is disposed.
C1_ScopeLifecycle ==
    /\ pc \in {"start", "built"} => scope = "none"
    /\ pc \in {"scoped", "open", "picked"} => scope = "active"
    /\ pc \in {"disposed", "done"} => scope = "disposed"

C1_Witness == pc = "done" /\ scope = "disposed" /\ pick = Undefined

\* The last finished press of ',' or '.' could not resolve the adjacent commit:
\* with the full history the commit names none; otherwise the entry the closure
\* looked at last (after its query, when it made one) is missing or names none,
\* or the reverse query found no commit other than the current one.
Unresolved ==
    IF FullHistoryGiven
    THEN \/ lastKey.key = "," /\ commit.previousSha = None
         \/ lastKey.key = "." /\ commit.nextSha = None
    ELSE \/ lastKey.key = ","
            /\ (lastKey.seen = NoEntry \/ lastKey.seen.previousSha = None)
         \/ lastKey.key = "." /\ ~lastKey.queried
            /\ (lastKey.seen = NoEntry \/ lastKey.seen.nextSha = None)
         \/ lastKey.key = "." /\ lastKey.queried
            /\ (lastKey.seen = NoEntry \/ lastKey.seen.sha = commit.sha)

\* C2 as stated: for a non-stash commit, a press of ',' or '.' whose adjacent
\* commit cannot be resolved resolves to KeyNoopCommand and dispatches nothing,
\* with the full history as without it.
C2_NoopWhenUnresolved ==
    (~commit.isStash /\ Unresolved) =>
        lastKey.result = KeyNoopCommand /\ lastKey.dispatched = Undefined

\* C2 amended: for a non-stash commit, a press of ',' or '.' whose adjacent
\* commit cannot be resolved dispatches nothing; the key resolves to
\* KeyNoopCommand when show was not given the full history, and is unbound
\* (undefined) when it was.
C2_NoDispatchWhenUnresolved ==
    (~commit.isStash /\ Unresolved) =>
        /\ lastKey.result = IF FullHistoryGiven THEN Undefined ELSE KeyNoopCommand
        /\ lastKey.dispatched = Undefined

C2_Witness ==
    /\ ~commit.isStash
    /\ lastKey.key = ","
    /\ lastKey.queried
    /\ lastKey.seen # NoEntry
    /\ lastKey.seen.previousSha = None
    /\ lastKey.result = KeyNoopCommand

\* C3: no log query is issued while show builds the picker; a log query is
\* issued only by a step that answers a press of ',' or '.', one query per
\* press, and never when show was given the full history.
C3_LazyQueries ==
    /\ [](pc \in {"start", "built"} => NothingPending)
    /\ [][(pending'.previous > pending.previous \/ pending'.next > pending.next) =>
            /\ PreviousCommandCall \/ NextCommandCall
            /\ pending'.previous + pending'.next = pending.previous + pending.next + 1
            /\ scope = "active"
            /\ ~FullHistoryGiven]_vars

C3_Witness == pc = "open" /\ pending.previous = 1 /\ pending.next = 1

\* C4: a press of ',' (resp. '.') on a picker without the full history issues a
\* log query exactly when the cached repoLog is undefined, lacks the commit, or
\* holds it with previousSha (resp. nextSha) undefined; otherwise it issues none
\* and resolves to ShowQuickCommitDetails of the cached adjacent sha, carrying
\* the cached repoLog.
C4_QueryIffUntrusted ==
    [][/\ PreviousCommandCall =>
            LET c == Get(repoLog, commit.sha) IN
            IF ~repoLog.defined \/ c = NoEntry \/ c.previousSha = None
            THEN pending'.previous = pending.previous + 1 /\ lastKey' = lastKey
            ELSE /\ pending' = pending
                 /\ ~lastKey'.queried
                 /\ lastKey'.result =
                        ShowQuickCommitDetails(c.previousSha, repoLog, goBackCommand)
       /\ NextCommandCall =>
            LET c == Get(repoLog, commit.sha) IN
            IF ~repoLog.defined \/ c = NoEntry \/ c.nextSha = None
            THEN pending'.next = pending.next + 1 /\ lastKey' = lastKey
            ELSE /\ pending' = pending
                 /\ ~lastKey'.queried
                 /\ lastKey'.result =
                        ShowQuickCommitDetails(c.nextSha, repoLog, goBackCommand)]_vars

C4_Witness ==
    /\ mapping.dot.type = "callback"
    /\ lastKey.key = "."
    /\ ~lastKey.queried
    /\ lastKey.result.type = "command"
    /\ lastKey.result.repoLog = repoLog

\* C5: show returns what the picker resolved to, an item of the list or
\* undefined, and the steps that close the picker and return dispatch nothing.
C5_ReturnsPick ==
    /\ [](pc = "done" =>
            /\ returned = pick
            /\ returned = Undefined \/ \E i \in 1..Len(items) : items[i] = returned)
    /\ [][(pc \in {"open", "picked", "disposed"} /\ pc' # pc) =>
            (lastKey' = lastKey)]_vars

C5_Witness == pc = "done" /\ returned # Undefined /\ returned.kind = "File"

\* C6 as stated: for a non-stash commit ',' and '.' are bound to a static action
\* exactly when show was given the full history, targeting commit.previousSha and
\* commit.nextSha with the repoLog and goBackCommand of show, and to a callback
\* otherwise.
C6_StaticIffFullHistory ==
    (~commit.isStash /\ pc \in {"scoped", "open", "picked"}) =>
        IF FullHistoryGiven
        THEN /\ mapping.comma =
                    ShowQuickCommitDetails(commit.previousSha, repoLog, goBackCommand)
             /\ mapping.dot =
                    ShowQuickCommitDetails(commit.nextSha, repoLog, goBackCommand)
        ELSE mapping.comma.type = "callback" /\ mapping.dot.type = "callback"

\* C6 amended: for a non-stash commit ',' (resp. '.') is bound to a callback
\* exactly when show was not given the full history; with the full history it is
\* bound to a static action targeting commit.previousSha (resp. commit.nextSha)
\* with the repoLog and goBackCommand of show when that sha is defined, and is
\* unbound when it is undefined.
C6_StaticIffFullAndDefined ==
    (~commit.isStash /\ pc \in {"scoped", "open", "picked"}) =>
        IF FullHistoryGiven
        THEN /\ mapping.comma =
                    IF commit.previousSha = None THEN Undefined
                    ELSE ShowQuickCommitDetails(commit.previousSha, repoLog,
                                                goBackCommand)
             /\ mapping.dot =
                    IF commit.nextSha = None THEN Undefined
                    ELSE ShowQuickCommitDetails(commit.nextSha, repoLog, goBackCommand)
        ELSE mapping.comma.type = "callback" /\ mapping.dot.type = "callback"

C6_Witness ==
    /\ ~commit.isStash
    /\ pc = "open"
    /\ FullHistoryGiven
    /\ mapping.comma.type = "command"
    /\ mapping.dot.type = "undefined"

\* C7: previous resolution modifies neither the commit nor the cached repoLog;
\* when it queried a log that holds the commit and the key resolves to a
\* command, the command carries that queried log (not the cached one) in which
\* the entry of the commit has its nextSha set to the nextSha of the commit as
\* it is when the query completes.
C7_FreshLogCarried ==
    [][/\ PreviousCommandCall => commit' = commit /\ repoLog' = repoLog
       /\ pending'.previous < pending.previous =>
            /\ commit' = commit /\ repoLog' = repoLog
            /\ lastKey'.key = "," /\ lastKey'.queried
            /\ (lastKey'.seen # NoEntry /\ lastKey'.seen.previousSha # None) =>
                    lastKey'.result.type = "command"
            /\ lastKey'.result.type = "command" =>
                 /\ lastKey'.seen # NoEntry
                 /\ lastKey'.result.sha = lastKey'.seen.previousSha
                 /\ Get(lastKey'.result.repoLog, commit.sha) =
                        [lastKey'.seen EXCEPT !.nextSha = commit.nextSha]
                 /\ lastKey'.result.repoLog # repoLog
                 /\ \E answer \in LogAnswers[commit.sha] :
                        lastKey'.result.repoLog =
                            SetNextSha(answer, commit.sha, commit.nextSha)]_vars

C7_Witness ==
    /\ lastKey.key = ","
    /\ lastKey.queried
    /\ lastKey.result.type = "command"
    /\ lastKey.seen.nextSha = None
    /\ Get(lastKey.result.repoLog, commit.sha).nextSha # None

\* C8: when next resolution queried a log, the key resolves to a command only
\* if the log has a first commit whose sha differs from the commit's; then
\* commit.nextSha is set to that sha and the command targets it with repoLog
\* undefined, so it never targets the commit itself; otherwise commit.nextSha
\* is unchanged and the key resolves to KeyNoopCommand.
C8_NextFallback ==
    [][pending'.next < pending.next =>
            /\ lastKey'.key = "." /\ lastKey'.queried
            /\ IF lastKey'.seen # NoEntry /\ lastKey'.seen.sha # commit.sha
               THEN /\ commit' = [commit EXCEPT !.nextSha = lastKey'.seen.sha]
                    /\ lastKey'.result =
                           ShowQuickCommitDetails(lastKey'.seen.sha, NoLog,
                                                  goBackCommand)
                    /\ lastKey'.result.sha # commit.sha
               ELSE commit' = commit /\ lastKey'.result = KeyNoopCommand]_vars

C8_Witness ==
    /\ lastKey.key = "."
    /\ lastKey.queried
    /\ lastKey.result.type = "command"
    /\ commit.nextSha = lastKey.result.sha

\* C9: for a stash commit ',' and '.' are never bound, and no log query and no
\* remotes query is ever issued, whatever repoLog was passed; for a non-stash
\* commit the remotes query is issued exactly once, before the picker opens.
C9_StashHasNoNavigation ==
    /\ commit.isStash =>
          /\ previousCommand = Undefined /\ nextCommand = Undefined
          /\ mapping.comma = Undefined /\ mapping.dot = Undefined
          /\ NothingPending
          /\ ~lastKey.queried
          /\ lastKey.dispatched = Undefined
          /\ remotesQueries = 0
    /\ ~commit.isStash => remotesQueries = IF pc = "start" THEN 0 ELSE 1

C9_Witness ==
    /\ commit.isStash
    /\ FullHistoryGiven
    /\ pc = "open"
    /\ lastKey.key = ","

\* C10: while the picker is open the 'right' key is bound to the item
\* highlighted last, whose onDidSelect has run when it has one, and the 'left'
\* key is bound to the goBackCommand of show (unbound when there is none) as
\* long as the scope is active.
C10_RightFollowsHighlight ==
    /\ (pc \in {"open", "picked"} /\ highlighted # Undefined) =>
          /\ mapping.right = highlighted
          /\ highlighted.onDidSelect => hooked = highlighted
    /\ hooked # Undefined => hooked.onDidSelect
    /\ scope = "active" => mapping.left = goBackCommand

C10_Witness ==
    /\ pc = "open"
    /\ goBackCommand # Undefined
    /\ hooked = goBackCommand
    /\ highlighted # Undefined
    /\ highlighted # hooked

====
